---- MODULE Spec2Model ----
(***************************************************************************)
(* Model of the keyword setters (src/vasp/setters.py) and of the INCAR and *)
(* KPOINTS writers (src/vasp/writers.py) of the Vasp calculator.           *)
(*                                                                         *)
(* Python values are tagged records [t |-> type, v |-> payload]; a dict is *)
(* a sequence of [k |-> key, v |-> value] entries with unique keys, in     *)
(* insertion order, as Python dicts are.                                   *)
(***************************************************************************)
EXTENDS Integers, Sequences, FiniteSets, TLC

VARIABLES
    parameters,   \* self.parameters: the parameter store (ordered dict)
    results,      \* TRUE while cached derived state of a run is held
    op,           \* the operation that acted last
    kwargs,       \* if op is set: the kwargs as the caller passed them
    changed,      \* if op is set: the ChangeSet it returned
    reset_called, \* if op is set: TRUE iff it called self.reset()
    err,          \* the exception the last operation raised, "" if none
    ncalls,       \* number of set calls made so far
    arg,          \* if op is set_xc_dict: its argument
    ret,          \* if op is set_xc_dict: the dict it returned
    kpoints,      \* the KPOINTS file: [exists, lines]
    incar,        \* the INCAR file: [exists, lines]
    hash_order    \* the order this process's string hashes give a set of keys

vars == <<parameters, results, op, kwargs, changed, reset_called, err,
          ncalls, arg, ret, kpoints, incar, hash_order>>

-----------------------------------------------------------------------------
(* Bounds *)

MaxCalls == 2
MaxPts == 4
MaxKeys == 3

-----------------------------------------------------------------------------
(* Python values *)

None == [t |-> "none", v |-> 0]
BoolV(b) == [t |-> "bool", v |-> b]
IntV(n) == [t |-> "int", v |-> n]
StrV(s) == [t |-> "str", v |-> s]
ListV(s) == [t |-> "list", v |-> s]
PointsV(s) == [t |-> "points", v |-> s]
TableV(f) == [t |-> "table", v |-> f]

\* bool(x): the truth value Python gives x in `if x:`
Truthy(x) ==
    CASE x.t = "none" -> FALSE
      [] x.t = "bool" -> x.v
      [] x.t = "int" -> x.v # 0
      [] x.t = "str" -> x.v # ""
      [] x.t \in {"list", "points"} -> Len(x.v) > 0
      [] OTHER -> TRUE

\* str.lower() on the method names in use
Lower(s) ==
    CASE s = "PBE" -> "pbe"
      [] s = "RPBE" -> "rpbe"
      [] s = "PBE0" -> "pbe0"
      [] OTHER -> s

-----------------------------------------------------------------------------
(* Ordered dicts *)

Entry(key, val) == [k |-> key, v |-> val]

Keys(d) == {d[i].k : i \in 1..Len(d)}

Has(d, key) == key \in Keys(d)

IndexOf(d, key) == CHOOSE i \in 1..Len(d) : d[i].k = key

\* d.get(key, None)
Get(d, key) == IF Has(d, key) THEN d[IndexOf(d, key)].v ELSE None

\* d[key] = val: an existing key keeps its position, a new key goes last
Put(d, key, val) ==
    IF Has(d, key)
    THEN [d EXCEPT ![IndexOf(d, key)] = Entry(key, val)]
    ELSE Append(d, Entry(key, val))

\* del d[key]
Del(d, key) == SelectSeq(d, LAMBDA e : e.k # key)

RECURSIVE Update(_, _)
\* d.update(e)
Update(d, e) ==
    IF e = <<>> THEN d
    ELSE Update(Put(d, Head(e).k, Head(e).v), Tail(e))

-----------------------------------------------------------------------------
(* The structure and the static tables the setters read *)

\* self.atoms, self.resort and self.ppp_list of the calculator
atoms == <<[symbol |-> "O", magmom |-> 0], [symbol |-> "Fe", magmom |-> 2]>>
resort == <<2, 1>>
ppp_list == <<<<"Fe", "potpaw_PBE/Fe/POTCAR", 8>>,
              <<"O", "potpaw_PBE/O/POTCAR", 6>>>>

\* Vasp.special_kwargs: the keys that are not INCAR tags
special_kwargs ==
    {"xc", "pp", "setups", "kpts", "gamma", "kpts_nintersections",
     "reciprocal", "ldau_luj"}

\* The keys of the model that are INCAR tags, in a reference order
IncarKeys == <<"nsw", "lwave", "magmom", "prec", "rwigs">>

\* Vasp.xc_defaults: lower-cased method name -> the assignments it implies
xc_defaults ==
    [m \in {"pbe", "rpbe", "pbe0"} |->
        CASE m = "pbe" -> <<Entry("pp", StrV("PBE"))>>
          [] m = "rpbe" -> <<Entry("pp", StrV("LDA")), Entry("gga", StrV("RP"))>>
          [] m = "pbe0" -> <<Entry("pp", StrV("LDA")), Entry("gga", StrV("PE")),
                             Entry("lhfcalc", BoolV(TRUE))>>]

-----------------------------------------------------------------------------
(* Keyword expanders *)

RECURSIVE MarkPresent(_, _, _)
\* for key in defaults: if key in self.parameters: d[key] = None
MarkPresent(d, defaults, p) ==
    IF defaults = <<>> THEN d
    ELSE MarkPresent(IF Has(p, Head(defaults).k)
                     THEN Put(d, Head(defaults).k, None) ELSE d,
                     Tail(defaults), p)

\* set_xc_dict with the new defaults merged before the old ones are marked
set_xc_dict_marks_last(p, val) ==
    LET d0 == Update(<<Entry("xc", val)>>, xc_defaults[Lower(val.v)])
        oxc == Get(p, "xc")
    IN IF Truthy(oxc)
       THEN MarkPresent(d0, xc_defaults[Lower(oxc.v)], p)
       ELSE d0

set_xc_dict(p, val) ==
    LET d0 == <<Entry("xc", val)>>
        oxc == Get(p, "xc")
        d1 == IF Truthy(oxc)
              THEN MarkPresent(d0, xc_defaults[Lower(oxc.v)], p)
              ELSE d0
    IN Update(d1, xc_defaults[Lower(val.v)])

RECURSIVE MarkKeys(_, _, _)
\* for key in keys: if key in self.parameters: d[key] = None
MarkKeys(d, keys, p) ==
    IF keys = <<>> THEN d
    ELSE MarkKeys(IF Has(p, Head(keys)) THEN Put(d, Head(keys), None) ELSE d,
                  Tail(keys), p)

\* [atom.magmom for atom in self.atoms[self.resort]]
AtomMagmoms == ListV([i \in 1..Len(resort) |-> atoms[resort[i]].magmom])

set_ispin_dict(p, val) ==
    IF val = None
    THEN MarkKeys(<<>>, <<"ispin", "magmom", "lorbit">>, p)
    ELSE IF val = IntV(1)
    THEN MarkKeys(<<Entry("ispin", IntV(1))>>, <<"magmom", "lorbit">>, p)
    ELSE LET d0 == <<Entry("ispin", IntV(2))>>
             d1 == IF ~Has(p, "magmom")
                   THEN Put(d0, "magmom", AtomMagmoms) ELSE d0
         IN IF ~Has(p, "lorbit") THEN Put(d1, "lorbit", IntV(11)) ELSE d1

\* [val[sym][f] for sym in atom_types]
PerSpecies(val, f) ==
    ListV([i \in 1..Len(ppp_list) |-> val.v[ppp_list[i][1]][f]])

\* set_ldau_luj_dict without the check for setups
set_ldau_luj_dict_unchecked(p, val) ==
    IF val # None
    THEN [raises |-> "",
          d |-> <<Entry("ldaul", PerSpecies(val, "L")),
                  Entry("ldauu", PerSpecies(val, "U")),
                  Entry("ldauj", PerSpecies(val, "J"))>>]
    ELSE [raises |-> "",
          d |-> <<Entry("ldaul", None), Entry("ldauu", None),
                  Entry("ldauj", None)>>]

\* raises: the exception raised ("" if none); d: the dict returned
set_ldau_luj_dict(p, val) ==
    IF Has(p, "setups")
    THEN [raises |-> "Exception", d |-> <<>>]
    ELSE IF val # None
    THEN [raises |-> "",
          d |-> <<Entry("ldaul", PerSpecies(val, "L")),
                  Entry("ldauu", PerSpecies(val, "U")),
                  Entry("ldauj", PerSpecies(val, "J"))>>]
    ELSE [raises |-> "",
          d |-> <<Entry("ldaul", None), Entry("ldauu", None),
                  Entry("ldauj", None)>>]

set_nsw_dict(p, val) ==
    <<Entry("nsw", val), Entry("lwave", BoolV(val.v > 0))>>

-----------------------------------------------------------------------------
(* set *)

RECURSIVE FileIOCalculator_set(_, _, _)
\* Applies every key of kw to the store p: None deletes the key if present,
\* any other value overwrites or creates it.  Returns the new store and the
\* names whose value differs from the one before the call.
FileIOCalculator_set(p, kw, ch) ==
    IF kw = <<>> THEN [parameters |-> p, changed |-> ch]
    ELSE LET key == Head(kw).k
             val == Head(kw).v
         IN IF val = None
            THEN FileIOCalculator_set(Del(p, key), Tail(kw),
                                      IF Has(p, key) THEN ch \cup {key} ELSE ch)
            ELSE IF Has(p, key) /\ Get(p, key) = val
            THEN FileIOCalculator_set(p, Tail(kw), ch)
            ELSE FileIOCalculator_set(Put(p, key, val), Tail(kw), ch \cup {key})

\* kwargs after the xc, ispin expansions (lines 29-33)
ExpandXcIspin(p, kw) ==
    LET k1 == IF Has(kw, "xc")
              THEN Update(kw, set_xc_dict(p, Get(kw, "xc"))) ELSE kw
    IN IF Has(k1, "ispin")
       THEN Update(k1, set_ispin_dict(p, Get(k1, "ispin"))) ELSE k1

\* kwargs after the nsw expansion (lines 38-39)
ExpandNsw(p, kw) ==
    IF Has(kw, "nsw") THEN Update(kw, set_nsw_dict(p, Get(kw, "nsw"))) ELSE kw

\* reset whatever the ChangeSet is
ResetAlways(ch) == TRUE

\* if changed_parameters: self.reset()
ResetNeeded(ch) == ch # {}

\* The whole of Vasp.set on store p: the exception raised, the store after,
\* the ChangeSet returned and whether self.reset() was called.
SetResult(p, kw) ==
    LET k2 == ExpandXcIspin(p, kw)
        ldau == IF Has(k2, "ldau_luj")
                THEN set_ldau_luj_dict(p, Get(k2, "ldau_luj"))
                ELSE [raises |-> "", d |-> <<>>]
    IN IF ldau.raises # ""
       THEN [raises |-> ldau.raises, parameters |-> p, changed |-> {},
             reset |-> FALSE]
       ELSE LET k4 == ExpandNsw(p, Update(k2, ldau.d))
                r == FileIOCalculator_set(p, k4, {})
            IN [raises |-> "", parameters |-> r.parameters,
                changed |-> r.changed, reset |-> ResetNeeded(r.changed)]

-----------------------------------------------------------------------------
(* The calls the model makes *)

\* A per-species Hubbard table, keyed by species symbol
LujTable ==
    TableV([s \in {"Fe", "O"} |->
              IF s = "Fe" THEN [L |-> 2, U |-> 4, J |-> 0]
              ELSE [L |-> -1, U |-> 0, J |-> 0]])

\* The method names a caller passes as xc
Methods == {"PBE", "rpbe", "pbe0"}

\* The keyword=value pairs a caller passes to set
Choices ==
    {Entry("xc", StrV(m)) : m \in Methods}
    \cup {Entry("ispin", v) : v \in {None, IntV(1), IntV(2)}}
    \cup {Entry("ldau_luj", v) : v \in {None, LujTable}}
    \cup {Entry("nsw", IntV(n)) : n \in {0, 5}}
    \cup {Entry("magmom", ListV(<<1, 1>>)), Entry("lorbit", IntV(10)),
          Entry("gga", StrV("PS")), Entry("setups", StrV("O_s"))}

\* The keyword pairs passed together in one call: a macro keyword with a
\* key its expansion touches, or with the ldau_luj macro expanded after it
Mixes ==
    {<<"xc", "gga">>, <<"xc", "ldau_luj">>,
     <<"ispin", "magmom">>, <<"ispin", "lorbit">>, <<"ispin", "ldau_luj">>}

\* kwargs of one or two keywords
KwargsSet ==
    {<<a>> : a \in Choices}
    \cup {y \in Choices \X Choices : <<y[1].k, y[2].k>> \in Mixes}

NoFile == [exists |-> FALSE, lines |-> <<>>]

Init ==
    /\ parameters = <<>>
    /\ results = FALSE
    /\ op = "init"
    /\ kwargs = <<>>
    /\ changed = {}
    /\ reset_called = FALSE
    /\ err = ""
    /\ ncalls = 0
    /\ arg = None
    /\ ret = <<>>
    /\ kpoints = NoFile
    /\ incar = NoFile
    /\ hash_order = IncarKeys

\* calc.set(**kw)
set(kw) ==
    /\ ncalls < MaxCalls
    /\ LET r == SetResult(parameters, kw)
       IN /\ parameters' = r.parameters
          /\ changed' = r.changed
          /\ reset_called' = r.reset
          /\ results' = IF r.reset THEN FALSE ELSE results
          /\ err' = r.raises
    /\ op' = "set"
    /\ kwargs' = kw
    /\ ncalls' = ncalls + 1
    /\ arg' = None
    /\ ret' = <<>>
    /\ UNCHANGED <<kpoints, incar, hash_order>>

\* calc.set_xc_dict(val): returns the expansion, the store is only read
call_set_xc_dict(val) ==
    /\ ret' = set_xc_dict(parameters, val)
    /\ arg' = val
    /\ op' = "set_xc_dict"
    /\ err' = ""
    /\ kwargs' = <<>>
    /\ changed' = {}
    /\ reset_called' = FALSE
    /\ UNCHANGED <<parameters, results, ncalls, kpoints, incar, hash_order>>

\* A run of the engine leaves cached derived state behind
calculate ==
    /\ ~results
    /\ results' = TRUE
    /\ op' = "calculate"
    /\ err' = ""
    /\ UNCHANGED <<parameters, kwargs, changed, reset_called, ncalls,
                   arg, ret, kpoints, incar, hash_order>>

Next ==
    \/ \E kw \in KwargsSet : set(kw)
    \/ \E m \in Methods : call_set_xc_dict(StrV(m))
    \/ calculate

Spec == Init /\ [][Next]_vars

-----------------------------------------------------------------------------
(* write_kpoints *)

\* ['0.0'] * 3
ZeroShift == [t |-> "strlist", v |-> <<"0.0", "0.0", "0.0">>]

\* Whether map(str, x) can iterate x
Iterable(x) == x.t \in {"list", "points", "strlist"}

\* map(str, point): the fields of one written line
Fields(point) ==
    CASE point.t = "list" -> [i \in 1..Len(point.v) |-> IntV(point.v[i])]
      [] point.t = "points" -> [i \in 1..Len(point.v) |-> ListV(point.v[i])]
      [] point.t = "strlist" -> [i \in 1..Len(point.v) |-> StrV(point.v[i])]

\* f.write(text): a line of fixed text
TextLine(s) == <<StrV(s)>>

\* NKPTS: None without kpts, 0 for a one-dimensional kpts, else len(kpts)
NKPTS(p) ==
    LET kpts == Get(p, "kpts")
    IN IF kpts = None THEN None
       ELSE IF kpts.t = "list" THEN IntV(0)
       ELSE IntV(Len(kpts.v))

\* MODE with the reciprocal flag looked at before kpts_nintersections
MODE_reciprocal_first(p) ==
    IF NKPTS(p) = IntV(0)
    THEN IF Truthy(Get(p, "gamma")) THEN "g" ELSE "m"
    ELSE IF Get(p, "reciprocal") = BoolV(TRUE) THEN "r"
    ELSE IF Get(p, "kpts_nintersections") # None THEN "l"
    ELSE "c"

MODE(p) ==
    IF NKPTS(p) = IntV(0)
    THEN IF Truthy(Get(p, "gamma")) THEN "g" ELSE "m"
    ELSE IF Get(p, "kpts_nintersections") # None THEN "l"
    ELSE IF Get(p, "reciprocal") = BoolV(TRUE) THEN "r"
    ELSE "c"

\* lines 1 to 3: the comment, the number of kpts, the format
KpointsHeader(p) ==
    <<TextLine("KPOINTS created by Atomic Simulation Environment"),
      IF MODE(p) = "l" THEN <<Get(p, "kpts_nintersections")>> ELSE <<NKPTS(p)>>,
      CASE MODE(p) = "m" -> TextLine("Monkhorst-Pack")
        [] MODE(p) = "g" -> TextLine("Gamma")
        [] MODE(p) = "c" -> TextLine("Cartesian")
        [] MODE(p) = "l" -> TextLine("Line-mode")
        [] OTHER -> TextLine("Reciprocal")>>

RECURSIVE WritePoints(_, _)
\* for point in points: f.write(' '.join(map(str, point)) + '\n')
WritePoints(lines, points) ==
    IF points = <<>> THEN [lines |-> lines, raises |-> ""]
    ELSE IF ~Iterable(Head(points))
    THEN [lines |-> lines, raises |-> "TypeError"]
    ELSE WritePoints(Append(lines, Fields(Head(points))), Tail(points))

\* The whole of write_kpoints on store p: the lines the file holds when the
\* with block is left, and the exception raised ("" if none).
WriteKpoints(p) ==
    LET head == KpointsHeader(p)
        kpts == Get(p, "kpts")
    IN IF MODE(p) \in {"m", "g"}
       THEN WritePoints(head, <<kpts,
                                IF Truthy(Get(p, "gamma")) THEN Get(p, "gamma")
                                ELSE ZeroShift>>)
       ELSE IF MODE(p) \in {"c", "r"}
       THEN IF ~Has(p, "kpts") THEN [lines |-> head, raises |-> "KeyError"]
            ELSE IF Len(kpts.v) # 4
            THEN [lines |-> head, raises |-> "ValueError"]
            ELSE WritePoints(head, <<kpts>>)
       ELSE LET head4 == Append(head,
                                IF Truthy(Get(p, "reciprocal"))
                                THEN TextLine("Reciprocal")
                                ELSE TextLine("Cartesian"))
            IN IF ~Has(p, "kpts") THEN [lines |-> head4, raises |-> "KeyError"]
               ELSE WritePoints(head4, <<kpts>>)

\* A k-point with w fields: coordinates (i, 0, 0) and, if w is 4, weight 1
KPoint(i, w) == [j \in 1..w |-> IF j = 1 THEN i ELSE IF j = 4 THEN 1 ELSE 0]

\* The values of kpts: None, a grid, or a list of n points of w fields
KptsValues ==
    {None, ListV(<<6, 6, 6>>)}
    \cup {PointsV([i \in 1..n |-> KPoint(i, w)]) : n \in 1..MaxPts, w \in 3..4}

\* The kwargs that set up the k-point keys, None leaving a key out
KpointsKwargs ==
    {<<Entry("kpts", a), Entry("gamma", b), Entry("reciprocal", c),
       Entry("kpts_nintersections", d)>> :
        a \in KptsValues,
        b \in {None, BoolV(TRUE), BoolV(FALSE), ListV(<<0, 0, 0>>)},
        c \in {None, BoolV(TRUE), BoolV(FALSE)},
        d \in {None, IntV(10)}}

\* The calculator as constructed with the k-point kwargs
InitK ==
    /\ parameters \in {SetResult(<<>>, kw).parameters : kw \in KpointsKwargs}
    /\ results = FALSE
    /\ op = "init"
    /\ kwargs = <<>>
    /\ changed = {}
    /\ reset_called = FALSE
    /\ err = ""
    /\ ncalls = 0
    /\ arg = None
    /\ ret = <<>>
    /\ kpoints = NoFile
    /\ incar = NoFile
    /\ hash_order = IncarKeys

\* calc.write_kpoints(): open(fname, 'w') creates or truncates the file
\* before the first line is written
write_kpoints ==
    /\ LET r == WriteKpoints(parameters)
       IN /\ kpoints' = [exists |-> TRUE, lines |-> r.lines]
          /\ err' = r.raises
    /\ op' = "write_kpoints"
    /\ UNCHANGED <<parameters, results, kwargs, changed, reset_called, ncalls,
                   arg, ret, incar, hash_order>>

NextK == write_kpoints

SpecK == InitK /\ [][NextK]_vars

-----------------------------------------------------------------------------
(* write_incar *)

\* ' ' + key.upper()
IncarTag(key) ==
    CASE key = "nsw" -> " NSW"
      [] key = "lwave" -> " LWAVE"
      [] key = "magmom" -> " MAGMOM"
      [] key = "prec" -> " PREC"
      [] key = "rwigs" -> " RWIGS"
      [] key = "ispin" -> " ISPIN"
      [] key = "lorbit" -> " LORBIT"
      [] OTHER -> key

\* The fields val is written as after the = sign
IncarValue(key, val) ==
    IF IncarTag(key) = " RWIGS"
    THEN [i \in 1..Len(ppp_list) |-> IntV(val.v[ppp_list[i][1]])]
    ELSE IF val.t = "bool"
    THEN <<StrV(IF val.v THEN ".TRUE." ELSE ".FALSE.")>>
    ELSE IF val.t = "str" THEN <<val>>
    ELSE IF Iterable(val) THEN Fields(val)
    ELSE <<val>>

\* f.write(f'{key} = {val}\n')
IncarLine(key, val) == <<StrV(IncarTag(key)), StrV("=")>> \o IncarValue(key, val)

IncarHeader == TextLine("INCAR created by Atomic Simulation Environment")

RECURSIVE IncarLines(_, _)
\* for key, val in d.items(): skip None, write the others
IncarLines(d, lines) ==
    IF d = <<>> THEN lines
    ELSE IncarLines(Tail(d),
                    IF Head(d).v = None THEN lines
                    ELSE Append(lines, IncarLine(Head(d).k, Head(d).v)))

\* list(set(self.parameters) - set(self.special_kwargs)): the keys come
\* out of the set in the order the string hashes give, not in the store's
incar_keys(p, order) ==
    SelectSeq(order, LAMBDA key : key \in Keys(p) \ special_kwargs)

\* The whole of write_incar on store p: the lines of the file
WriteIncar(p, order) ==
    LET keys == incar_keys(p, order)
        d == [i \in 1..Len(keys) |-> Entry(keys[i], Get(p, keys[i]))]
    IN IncarLines(d, <<IncarHeader>>)

\* The keyword=value pairs the INCAR stores are built from
IncarChoices ==
    {Entry("nsw", IntV(5)), Entry("xc", StrV("PBE")),
     Entry("magmom", ListV(<<1, 1>>)), Entry("prec", StrV("Normal")),
     Entry("rwigs", TableV([s \in {"Fe", "O"} |-> IF s = "Fe" THEN 1 ELSE 2]))}

\* kwargs of up to MaxKeys of these keywords, in every order
IncarKwargs ==
    UNION {{kw \in [1..n -> IncarChoices] :
               \A i, j \in 1..n : i # j => kw[i].k # kw[j].k} : n \in 1..MaxKeys}

\* The orders a set of the INCAR keys can come out in
HashOrders ==
    {o \in [1..Len(IncarKeys) -> {IncarKeys[i] : i \in 1..Len(IncarKeys)}] :
        \A i, j \in 1..Len(IncarKeys) : i # j => o[i] # o[j]}

\* The calculator as constructed with the INCAR kwargs, in a process whose
\* string hashes give some order
InitI ==
    /\ parameters \in {SetResult(<<>>, kw).parameters : kw \in IncarKwargs}
    /\ hash_order \in HashOrders
    /\ results = FALSE
    /\ op = "init"
    /\ kwargs = <<>>
    /\ changed = {}
    /\ reset_called = FALSE
    /\ err = ""
    /\ ncalls = 0
    /\ arg = None
    /\ ret = <<>>
    /\ kpoints = NoFile
    /\ incar = NoFile

\* calc.write_incar()
write_incar ==
    /\ incar' = [exists |-> TRUE, lines |-> WriteIncar(parameters, hash_order)]
    /\ op' = "write_incar"
    /\ err' = ""
    /\ UNCHANGED <<parameters, results, kwargs, changed, reset_called, ncalls,
                   arg, ret, kpoints, hash_order>>

NextI == write_incar

SpecI == InitI /\ [][NextI]_vars

-----------------------------------------------------------------------------
(* Claims about the setters, checked under Spec *)

\* C1: when the store's xc is a method old and set_xc_dict is called with
\* another method new, the dict returned marks with None exactly the keys
\* of old's defaults that are in the store and are not keys of new's
\* defaults, gives every key of new's defaults its value from the table,
\* gives xc the value new, and has no other key.
C1_XcDictSwitch ==
    (op = "set_xc_dict" /\ Has(parameters, "xc")
        /\ arg # Get(parameters, "xc")) =>
    LET old == xc_defaults[Lower(Get(parameters, "xc").v)]
        new == xc_defaults[Lower(arg.v)]
        removed == {key \in Keys(old) : Has(parameters, key) /\ ~Has(new, key)}
    IN /\ \A key \in removed : Has(ret, key) /\ Get(ret, key) = None
       /\ \A i \in 1..Len(new) :
             Has(ret, new[i].k) /\ Get(ret, new[i].k) = new[i].v
       /\ Has(ret, "xc") /\ Get(ret, "xc") = arg
       /\ \A key \in Keys(ret) : Get(ret, key) = None => key \in removed
       /\ Keys(ret) = removed \cup Keys(new) \cup {"xc"}

\* C1 witness: a store set up for pbe0 is asked for rpbe, and lhfcalc, a
\* default of pbe0 alone, is marked for removal.
C1_Witness ==
    /\ op = "set_xc_dict"
    /\ Get(parameters, "xc") = StrV("pbe0")
    /\ Has(parameters, "lhfcalc")
    /\ arg = StrV("rpbe")
    /\ Has(ret, "lhfcalc") /\ Get(ret, "lhfcalc") = None
    /\ Get(ret, "gga") = StrV("RP")

\* C2: a set call that follows a set call with the same kwargs returns an
\* empty ChangeSet and leaves the store as the first call left it.
C2_SetIdempotent ==
    [][(op = "set" /\ err = "" /\ op' = "set" /\ kwargs' = kwargs)
        => (err' = "" /\ changed' = {} /\ parameters' = parameters)]_vars

\* C7: a set call with ldau_luj among its kwargs, made while the store has
\* the key setups, raises the configuration error, leaves the store as it
\* was and does not invalidate the cached derived state.
C7_SetupsConflict ==
    [][(op' = "set" /\ Has(parameters, "setups") /\ Has(kwargs', "ldau_luj"))
        => (err' = "Exception" /\ parameters' = parameters
            /\ results' = results /\ ~reset_called' /\ changed' = {})]_vars

\* C7 witness: with setups in the store and cached state held, a set call
\* passing xc together with ldau_luj has raised.
C7_Witness ==
    /\ op = "set"
    /\ err = "Exception"
    /\ Has(parameters, "setups")
    /\ Has(kwargs, "ldau_luj") /\ Has(kwargs, "xc")
    /\ results

\* C9: a set call calls reset, dropping the cached derived state, exactly
\* when the ChangeSet it returns is non-empty; a call returning an empty
\* ChangeSet leaves the cached derived state as it was.
C9_ResetIffChanged ==
    [][op' = "set" =>
        /\ reset_called' <=> (changed' # {})
        /\ reset_called' => ~results'
        /\ ~reset_called' => results' = results]_vars

\* C9 witness: a successful set call returned an empty ChangeSet while
\* cached derived state was held, and the state is still held.
C9_Witness ==
    /\ op = "set"
    /\ err = ""
    /\ changed = {}
    /\ ~reset_called
    /\ results

\* C10: a value passed in the same set call as a macro keyword wins over
\* the macro's expansion: after set(ispin=2, magmom=M) the store's magmom
\* is M, and after set(xc=new, k=v) with k a key of the previous method's
\* defaults the store's k is v.
C10_ExplicitWins ==
    [][(op' = "set" /\ err' = "") =>
        /\ (Get(kwargs', "ispin") = IntV(2) /\ Has(kwargs', "magmom"))
              => Get(parameters', "magmom") = Get(kwargs', "magmom")
        /\ \A key \in Keys(kwargs') \ {"xc"} :
              (Has(kwargs', "xc") /\ Has(parameters, "xc")
                  /\ Has(xc_defaults[Lower(Get(parameters, "xc").v)], key))
              => Get(parameters', key) = Get(kwargs', key)]_vars

-----------------------------------------------------------------------------
(* Claims about write_kpoints, checked under SpecK *)

\* C3: with kpts in the store, lines 2 and 3 of the KPOINTS file are: for
\* a flat kpts, 0 and Gamma if gamma is truthy, else Monkhorst-Pack; for a
\* list of points with kpts_nintersections set, the intersections value
\* and Line-mode; for a list of points without it and reciprocal true, the
\* number of points and Reciprocal; otherwise the number of points and
\* Cartesian.
C3_KpointsHeader ==
    (op = "write_kpoints" /\ Has(parameters, "kpts")) =>
    LET kpts == Get(parameters, "kpts")
        n == IF kpts.t = "points" THEN Len(kpts.v) ELSE 0
        l == kpoints.lines
    IN /\ kpoints.exists
       /\ Len(l) >= 3
       /\ IF kpts.t = "list"
          THEN /\ l[2] = <<IntV(0)>>
               /\ l[3] = IF Truthy(Get(parameters, "gamma"))
                         THEN TextLine("Gamma") ELSE TextLine("Monkhorst-Pack")
          ELSE IF Has(parameters, "kpts_nintersections")
          THEN /\ l[2] = <<Get(parameters, "kpts_nintersections")>>
               /\ l[3] = TextLine("Line-mode")
          ELSE IF Get(parameters, "reciprocal") = BoolV(TRUE)
          THEN l[2] = <<IntV(n)>> /\ l[3] = TextLine("Reciprocal")
          ELSE l[2] = <<IntV(n)>> /\ l[3] = TextLine("Cartesian")

\* C3 witness: a list of points written with kpts_nintersections set and
\* reciprocal true: the header is that of line mode.
C3_Witness ==
    /\ op = "write_kpoints"
    /\ Get(parameters, "kpts").t = "points"
    /\ Get(parameters, "kpts_nintersections") = IntV(10)
    /\ Get(parameters, "reciprocal") = BoolV(TRUE)
    /\ kpoints.lines[2] = <<IntV(10)>>
    /\ kpoints.lines[3] = TextLine("Line-mode")

\* C4: in the cartesian and reciprocal submodes a list of N points is
\* accepted exactly when every point has 4 fields: then the call completes
\* and the file holds the count line N and N point lines, one per point;
\* if some point has another number of fields the validation error is
\* raised.
C4_FourFieldsAccepted ==
    (op = "write_kpoints" /\ Get(parameters, "kpts").t = "points"
        /\ ~Has(parameters, "kpts_nintersections")) =>
    LET pts == Get(parameters, "kpts").v
    IN IF \A i \in 1..Len(pts) : Len(pts[i]) = 4
       THEN /\ err = ""
            /\ Len(kpoints.lines) = 3 + Len(pts)
            /\ kpoints.lines[2] = <<IntV(Len(pts))>>
            /\ \A i \in 1..Len(pts) :
                  kpoints.lines[3 + i] = Fields(ListV(pts[i]))
       ELSE err = "ValueError"

\* C5: when write_kpoints raises the validation error the KPOINTS file is
\* as it was before the call: not created, not truncated, no line written.
C5_ValidatesBeforeWriting ==
    [][(op' = "write_kpoints" /\ err' = "ValueError")
        => kpoints' = kpoints]_vars

\* C6: with a flat kpts, write_kpoints completes and the file holds five
\* lines: the comment, 0, the format, the grid dimensions, and the shift,
\* which is the gamma value if gamma is truthy and three zeros otherwise.
C6_AutomaticFiveLines ==
    (op = "write_kpoints" /\ Get(parameters, "kpts").t = "list") =>
    /\ err = ""
    /\ Len(kpoints.lines) = 5
    /\ kpoints.lines[2] = <<IntV(0)>>
    /\ kpoints.lines[4] = Fields(Get(parameters, "kpts"))
    /\ kpoints.lines[5] = IF Truthy(Get(parameters, "gamma"))
                          THEN Fields(Get(parameters, "gamma"))
                          ELSE Fields(ZeroShift)

-----------------------------------------------------------------------------
(* Claims about write_incar, checked under SpecI *)

RECURSIVE InsertionOrderLines(_, _)
\* One line per key of store p that is no special key and whose value is
\* not None, in the order of the store
InsertionOrderLines(p, lines) ==
    IF p = <<>> THEN lines
    ELSE InsertionOrderLines(Tail(p),
            IF Head(p).k \in special_kwargs \/ Head(p).v = None THEN lines
            ELSE Append(lines, IncarLine(Head(p).k, Head(p).v)))

\* C8: the INCAR file holds, after the header line, one line for each key
\* of the store that is no special key and whose value is not None, in the
\* store's insertion order.
C8_IncarInsertionOrder ==
    op = "write_incar" =>
        incar.lines = InsertionOrderLines(parameters, <<IncarHeader>>)

====
